---- MODULE Spec2Model ----
(***************************************************************************)
(* WordChain Arena: the in-memory game store (MemStorage, server/storage)   *)
(* as a state machine.  One action per storage method reachable from the   *)
(* HTTP routes (createGame, joinGame, startGame, submitWord, getGame) plus  *)
(* the passage of wall-clock time.                                          *)
(*                                                                         *)
(* Time.  The code reads the clock (Date.now(), new Date()) and stores      *)
(* absolute expiry timestamps, but it only ever compares an expiry with    *)
(* the clock or subtracts the clock from it.  The model therefore keeps    *)
(* the clock at the origin (now = 0) and stores each roundEndsAt relative  *)
(* to the present; the Tick action, which lets TickMs milliseconds pass,   *)
(* moves every stored expiry TickMs closer.  Every expiry further in the    *)
(* past than MaxStaleTicks ticks is kept at that distance: the code only   *)
(* tests whether an expired timestamp is in the past.                      *)
(*                                                                         *)
(* A handler runs at one instant: the clock does not move between the      *)
(* reads of the clock inside one call.                                     *)
(***************************************************************************)
EXTENDS Integers, Sequences, FiniteSets, TLC

\* ------------------------------------------------------------------ bounds
MaxPlayerId == 5       \* player records created, in the lifecycle scope
MaxRoundPlayerId == 2  \* player records created, in the round scope
MaxScore == 2          \* highest score a player is let reach
MaxStaleTicks == 1     \* ticks an expired round is tracked past its expiry

\* --------------------------------------------------------------- constants
RoundMs == 5000        \* Date.now() + 5000
BotWindowHi == 3000    \* timeLeft < 3000
BotWindowLo == 1000    \* timeLeft > 1000
MaxPlayers == 4        \* playerIds.length >= 4
MaxRounds == 5         \* game.round >= 5
BotUserId == -1        \* userId -1 is Alice
TickMs == 1000         \* the time that passes in one step
now == 0               \* the clock, kept at the origin (see above)

GameIds == {"G1", "G2"}
UserIds == {1, 2, 3, 4, 5}

\* ------------------------------------------------------------------- text
\* Characters are one-letter strings; a word is a sequence of characters.
\* The empty string stands for the result of charAt(0) or slice(-1) on "".
\* the words submitted: "e", " e", "e " and the empty word
Words == {<<"e">>, <<" ", "e">>, <<"e", " ">>, <<>>}

\* String.prototype.toUpperCase on one character
toUpperCase(c) ==
    CASE c = "e" -> "E"
      [] c = "t" -> "T"
      [] OTHER -> c

\* String.prototype.toUpperCase on a word
wordToUpperCase(w) == [i \in 1..Len(w) |-> toUpperCase(w[i])]

isWhiteSpace(c) == c = " "

RECURSIVE trimStart(_)
trimStart(w) ==
    IF w # <<>> /\ isWhiteSpace(Head(w)) THEN trimStart(Tail(w)) ELSE w

RECURSIVE trimEnd(_)
trimEnd(w) ==
    IF w # <<>> /\ isWhiteSpace(w[Len(w)])
    THEN trimEnd(SubSeq(w, 1, Len(w) - 1))
    ELSE w

\* String.prototype.trim
trim(w) == trimEnd(trimStart(w))

\* String.prototype.charAt(0)
charAt0(w) == IF w = <<>> THEN "" ELSE w[1]

\* String.prototype.slice(-1)
sliceLast(w) == IF w = <<>> THEN "" ELSE w[Len(w)]

startWords ==
    << <<"A","P","P","L","E">>, <<"T","I","G","E","R">>,
       <<"R","I","V","E","R">>, <<"C","L","O","U","D">>,
       <<"M","U","S","I","C">>, <<"G","H","O","S","T">>,
       <<"L","E","M","O","N">>, <<"P","I","Z","Z","A">> >>

backupWords ==
    << <<"S","T","O","R","M">>, <<"B","R","E","A","D">>,
       <<"N","I","G","H","T">>, <<"D","R","E","A","M">>,
       <<"F","L","A","M","E">> >>

BOTWORD == <<"B","O","T","W","O","R","D">>

\* ------------------------------------------------------------------ state
VARIABLES
    games,            \* Map<string, Game>
    players,          \* Map<number, Player>
    gamePlayers,      \* Map<string, number[]>
    playerIdCounter   \* next player id

vars == <<games, players, gamePlayers, playerIdCounter>>

\* a nullable Date: <<>> is null, <<t>> is the timestamp t
Null == <<>>
Date(t) == <<t>>
getTime(d) == d[1]

\* The store the methods work on, as one value.
Store == [games |-> games, players |-> players, gamePlayers |-> gamePlayers,
          playerIdCounter |-> playerIdCounter]

\* Map.set
mapSet(m, k, v) == [x \in DOMAIN m \cup {k} |-> IF x = k THEN v ELSE m[x]]

\* the players of a game, in list order (gamePlayers.get(id) || [])
playerIdsOf(S, gameId) ==
    IF gameId \in DOMAIN S.gamePlayers THEN S.gamePlayers[gameId] ELSE <<>>

\* playerIds.find(pid => players.get(pid)?.userId === userId): 0 for undefined
RECURSIVE findPlayer(_, _, _)
findPlayer(S, pids, userId) ==
    IF pids = <<>> THEN 0
    ELSE IF Head(pids) \in DOMAIN S.players /\ S.players[Head(pids)].userId = userId
         THEN Head(pids)
         ELSE findPlayer(S, Tail(pids), userId)

\* what a method hands back: the store it leaves, the Error it threw ("" for
\* none) and its return value (<<v>>, or <<>> for undefined / void / a throw)
Returned(S, v) == [S |-> S, error |-> "", value |-> <<v>>]
ReturnedVoid(S) == [S |-> S, error |-> "", value |-> <<>>]
Thrown(S, message) == [S |-> S, error |-> message, value |-> <<>>]

\* ----------------------------------------------------------------- methods
\* joinGame letting a fifth player in: the list is full only above 4
joinGame_fullAboveFour(S, gameId, userId) ==
    IF gameId \notin DOMAIN S.games THEN Thrown(S, "Game not found")
    ELSE IF S.games[gameId].status # "waiting" THEN Thrown(S, "Game already started")
    ELSE LET playerIds == playerIdsOf(S, gameId) IN
         IF Len(playerIds) > MaxPlayers THEN Thrown(S, "Game full")
         ELSE LET existing == findPlayer(S, playerIds, userId) IN
              IF existing # 0 THEN Returned(S, S.players[existing])
              ELSE LET player == [id |-> S.playerIdCounter, gameId |-> gameId,
                                  userId |-> userId, score |-> 0,
                                  hasSubmitted |-> FALSE]
                   IN  Returned([S EXCEPT
                                   !.playerIdCounter = @ + 1,
                                   !.players = mapSet(@, player.id, player),
                                   !.gamePlayers =
                                       mapSet(@, gameId, Append(playerIds, player.id))],
                                player)

\* joinGame looking for the user's player before it looks at the status
joinGame_existingFirst(S, gameId, userId) ==
    IF gameId \notin DOMAIN S.games THEN Thrown(S, "Game not found")
    ELSE LET playerIds == playerIdsOf(S, gameId)
             existing == findPlayer(S, playerIds, userId)
         IN  IF existing # 0 THEN Returned(S, S.players[existing])
             ELSE IF S.games[gameId].status # "waiting"
             THEN Thrown(S, "Game already started")
             ELSE IF Len(playerIds) >= MaxPlayers THEN Thrown(S, "Game full")
             ELSE LET player == [id |-> S.playerIdCounter, gameId |-> gameId,
                                 userId |-> userId, score |-> 0,
                                 hasSubmitted |-> FALSE]
                  IN  Returned([S EXCEPT
                                  !.playerIdCounter = @ + 1,
                                  !.players = mapSet(@, player.id, player),
                                  !.gamePlayers =
                                      mapSet(@, gameId, Append(playerIds, player.id))],
                               player)

joinGame(S, gameId, userId) ==
    IF gameId \notin DOMAIN S.games THEN Thrown(S, "Game not found")
    ELSE IF S.games[gameId].status # "waiting" THEN Thrown(S, "Game already started")
    ELSE LET playerIds == playerIdsOf(S, gameId) IN
         IF Len(playerIds) >= MaxPlayers THEN Thrown(S, "Game full")
         ELSE LET existing == findPlayer(S, playerIds, userId) IN
              IF existing # 0 THEN Returned(S, S.players[existing])
              ELSE LET player == [id |-> S.playerIdCounter, gameId |-> gameId,
                                  userId |-> userId, score |-> 0,
                                  hasSubmitted |-> FALSE]
                   IN  Returned([S EXCEPT
                                   !.playerIdCounter = @ + 1,
                                   !.players = mapSet(@, player.id, player),
                                   !.gamePlayers =
                                       mapSet(@, gameId, Append(playerIds, player.id))],
                                player)

\* createGame enrolling the bot whatever the flag
createGame_alwaysBot(S, id, hostId, isBotGame) ==
    LET game == [id |-> id, hostId |-> hostId, status |-> "waiting", round |-> 0,
                 currentWord |-> <<>>, roundEndsAt |-> Null,
                 isBotGame |-> isBotGame]
        S1 == [S EXCEPT !.games = mapSet(@, id, game),
                        !.gamePlayers = mapSet(@, id, <<>>)]
        joined == joinGame(S1, id, hostId)
        S2 == joined.S
        botPlayer == [id |-> S2.playerIdCounter, gameId |-> id,
                      userId |-> BotUserId, score |-> 0, hasSubmitted |-> FALSE]
        S3 == [S2 EXCEPT
                 !.playerIdCounter = @ + 1,
                 !.players = mapSet(@, botPlayer.id, botPlayer),
                 !.gamePlayers =
                     mapSet(@, id, Append(playerIdsOf(S2, id), botPlayer.id))]
    IN  IF joined.error # "" THEN Thrown(S2, joined.error)
        ELSE Returned(S3, game)

\* id stands for Math.random().toString(36).substring(2, 8).toUpperCase():
\* any code, one already in use included
createGame(S, id, hostId, isBotGame) ==
    LET game == [id |-> id, hostId |-> hostId, status |-> "waiting", round |-> 0,
                 currentWord |-> <<>>, roundEndsAt |-> Null,
                 isBotGame |-> isBotGame]
        S1 == [S EXCEPT !.games = mapSet(@, id, game),
                        !.gamePlayers = mapSet(@, id, <<>>)]
        joined == joinGame(S1, id, hostId)
        S2 == joined.S
        botPlayer == [id |-> S2.playerIdCounter, gameId |-> id,
                      userId |-> BotUserId, score |-> 0, hasSubmitted |-> FALSE]
        S3 == [S2 EXCEPT
                 !.playerIdCounter = @ + 1,
                 !.players = mapSet(@, botPlayer.id, botPlayer),
                 !.gamePlayers =
                     mapSet(@, id, Append(playerIdsOf(S2, id), botPlayer.id))]
    IN  IF joined.error # "" THEN Thrown(S2, joined.error)
        ELSE IF isBotGame THEN Returned(S3, game)
        ELSE Returned(S2, game)

\* startGame refusing a game that is not waiting
startGame_waitingOnly(S, gameId, k) ==
    IF gameId \notin DOMAIN S.games THEN Thrown(S, "Game not found")
    ELSE IF S.games[gameId].status # "waiting"
    THEN Thrown(S, "Game already started")
    ELSE ReturnedVoid([S EXCEPT !.games[gameId] =
                          [@ EXCEPT !.status = "playing",
                                    !.round = 1,
                                    !.currentWord = startWords[k],
                                    !.roundEndsAt = Date(now + RoundMs)]])

\* k stands for Math.floor(Math.random() * startWords.length) + 1
startGame(S, gameId, k) ==
    IF gameId \notin DOMAIN S.games THEN Thrown(S, "Game not found")
    ELSE ReturnedVoid([S EXCEPT !.games[gameId] =
                          [@ EXCEPT !.status = "playing",
                                    !.round = 1,
                                    !.currentWord = startWords[k],
                                    !.roundEndsAt = Date(now + RoundMs)]])

\* endRound finishing the game only above round 5
endRound_aboveFive(S, gameId, winningWord, k) ==
    LET game == S.games[gameId] IN
    IF game.round > MaxRounds
    THEN [S EXCEPT !.games[gameId] =
             [@ EXCEPT !.status = "finished", !.roundEndsAt = Null]]
    ELSE [S EXCEPT !.games[gameId] =
             [@ EXCEPT !.round = @ + 1,
                       !.currentWord =
                           IF winningWord # <<>> /\ winningWord[1] # <<>>
                           THEN winningWord[1]
                           ELSE backupWords[k],
                       !.roundEndsAt = Date(now + RoundMs)]]

\* endRound leaving the expiry of the last round on the finished game
endRound_keepsExpiry(S, gameId, winningWord, k) ==
    LET game == S.games[gameId] IN
    IF game.round >= MaxRounds
    THEN [S EXCEPT !.games[gameId] = [@ EXCEPT !.status = "finished"]]
    ELSE [S EXCEPT !.games[gameId] =
             [@ EXCEPT !.round = @ + 1,
                       !.currentWord =
                           IF winningWord # <<>> /\ winningWord[1] # <<>>
                           THEN winningWord[1]
                           ELSE backupWords[k],
                       !.roundEndsAt = Date(now + RoundMs)]]

\* endRound timing the next round from the expiry of the last one
endRound_fromExpiry(S, gameId, winningWord, k) ==
    LET game == S.games[gameId] IN
    IF game.round >= MaxRounds
    THEN [S EXCEPT !.games[gameId] =
             [@ EXCEPT !.status = "finished", !.roundEndsAt = Null]]
    ELSE [S EXCEPT !.games[gameId] =
             [@ EXCEPT !.round = @ + 1,
                       !.currentWord =
                           IF winningWord # <<>> /\ winningWord[1] # <<>>
                           THEN winningWord[1]
                           ELSE backupWords[k],
                       !.roundEndsAt =
                           IF winningWord = <<>> /\ game.roundEndsAt # Null
                           THEN Date(getTime(game.roundEndsAt) + RoundMs)
                           ELSE Date(now + RoundMs)]]

\* winningWord is <<>> for an absent argument and <<w>> for the word w;
\* k stands for Math.floor(Math.random() * backupWords.length) + 1
endRound(S, gameId, winningWord, k) ==
    LET game == S.games[gameId] IN
    IF game.round >= MaxRounds
    THEN [S EXCEPT !.games[gameId] =
             [@ EXCEPT !.status = "finished", !.roundEndsAt = Null]]
    ELSE [S EXCEPT !.games[gameId] =
             [@ EXCEPT !.round = @ + 1,
                       !.currentWord =
                           IF winningWord # <<>> /\ winningWord[1] # <<>>
                           THEN winningWord[1]
                           ELSE backupWords[k],
                       !.roundEndsAt = Date(now + RoundMs)]]

\* the message `Word must start with '${lastChar}'`
mustStartWith(lastChar) == <<"Word must start with", lastChar>>

\* submitWord without the test of the game's status
submitWord_anyStatus(S, gameId, userId, word, k) ==
    IF gameId \notin DOMAIN S.games
    THEN Returned(S, [valid |-> FALSE, message |-> <<"Game not found">>])
    ELSE LET lastChar == toUpperCase(sliceLast(S.games[gameId].currentWord))
             firstChar == toUpperCase(charAt0(trim(word)))
             player == findPlayer(S, playerIdsOf(S, gameId), userId)
             S1 == IF player # 0
                   THEN [S EXCEPT !.players[player].score = @ + 1]
                   ELSE S
         IN  IF firstChar # lastChar
             THEN Returned(S, [valid |-> FALSE, message |-> mustStartWith(lastChar)])
             ELSE Returned(endRound(S1, gameId, <<wordToUpperCase(word)>>, k),
                           [valid |-> TRUE, message |-> <<>>])

\* submitWord crediting the player before it checks the word
submitWord_scoreFirst(S, gameId, userId, word, k) ==
    IF gameId \notin DOMAIN S.games
    THEN Returned(S, [valid |-> FALSE, message |-> <<"Game not found">>])
    ELSE IF S.games[gameId].status # "playing"
    THEN Returned(S, [valid |-> FALSE, message |-> <<"Round not active">>])
    ELSE LET lastChar == toUpperCase(sliceLast(S.games[gameId].currentWord))
             firstChar == toUpperCase(charAt0(trim(word)))
             player == findPlayer(S, playerIdsOf(S, gameId), userId)
             S1 == IF player # 0
                   THEN [S EXCEPT !.players[player].score = @ + 1]
                   ELSE S
         IN  IF firstChar # lastChar
             THEN Returned(S1, [valid |-> FALSE, message |-> mustStartWith(lastChar)])
             ELSE Returned(endRound(S1, gameId, <<wordToUpperCase(word)>>, k),
                           [valid |-> TRUE, message |-> <<>>])

submitWord(S, gameId, userId, word, k) ==
    IF gameId \notin DOMAIN S.games
    THEN Returned(S, [valid |-> FALSE, message |-> <<"Game not found">>])
    ELSE IF S.games[gameId].status # "playing"
    THEN Returned(S, [valid |-> FALSE, message |-> <<"Round not active">>])
    ELSE LET lastChar == toUpperCase(sliceLast(S.games[gameId].currentWord))
             firstChar == toUpperCase(charAt0(trim(word)))
             player == findPlayer(S, playerIdsOf(S, gameId), userId)
             S1 == IF player # 0
                   THEN [S EXCEPT !.players[player].score = @ + 1]
                   ELSE S
         IN  IF firstChar # lastChar
             THEN Returned(S, [valid |-> FALSE, message |-> mustStartWith(lastChar)])
             ELSE Returned(endRound(S1, gameId, <<wordToUpperCase(word)>>, k),
                           [valid |-> TRUE, message |-> <<>>])

\* processBotMove with the ends of its window included
processBotMove_closedWindow(S, gameId, hit, k) ==
    IF \/ gameId \notin DOMAIN S.games
       \/ S.games[gameId].status # "playing"
       \/ ~S.games[gameId].isBotGame
    THEN S
    ELSE LET game == S.games[gameId]
             timeLeft == IF game.roundEndsAt # Null
                         THEN getTime(game.roundEndsAt) - now
                         ELSE 0
             lastChar == toUpperCase(sliceLast(game.currentWord))
             botWord == <<lastChar>> \o BOTWORD
         IN  IF timeLeft <= BotWindowHi /\ timeLeft >= BotWindowLo /\ hit
             THEN submitWord(S, gameId, BotUserId, botWord, k).S
             ELSE S

\* processBotMove submitting the suffix without the required first letter
processBotMove_noLetter(S, gameId, hit, k) ==
    IF \/ gameId \notin DOMAIN S.games
       \/ S.games[gameId].status # "playing"
       \/ ~S.games[gameId].isBotGame
    THEN S
    ELSE LET game == S.games[gameId]
             timeLeft == IF game.roundEndsAt # Null
                         THEN getTime(game.roundEndsAt) - now
                         ELSE 0
         IN  IF timeLeft < BotWindowHi /\ timeLeft > BotWindowLo /\ hit
             THEN submitWord(S, gameId, BotUserId, BOTWORD, k).S
             ELSE S

\* hit stands for Math.random() > 0.3
processBotMove(S, gameId, hit, k) ==
    IF \/ gameId \notin DOMAIN S.games
       \/ S.games[gameId].status # "playing"
       \/ ~S.games[gameId].isBotGame
    THEN S
    ELSE LET game == S.games[gameId]
             timeLeft == IF game.roundEndsAt # Null
                         THEN getTime(game.roundEndsAt) - now
                         ELSE 0
             lastChar == toUpperCase(sliceLast(game.currentWord))
             botWord == <<lastChar>> \o BOTWORD
         IN  IF timeLeft < BotWindowHi /\ timeLeft > BotWindowLo /\ hit
             THEN submitWord(S, gameId, BotUserId, botWord, k).S
             ELSE S

\* the GameState view: the game's fields and its players
gameView(S, id) ==
    [game |-> S.games[id],
     players |-> [i \in 1..Len(playerIdsOf(S, id)) |->
                     S.players[playerIdsOf(S, id)[i]]]]

\* getGame that only builds the view: no round is resolved by a read
getGame_viewOnly(S, id, hit, k) ==
    IF id \notin DOMAIN S.games THEN ReturnedVoid(S)
    ELSE Returned(S, gameView(S, id))

\* getGame resolving the round at the instant of its expiry already
getGame_atExpiry(S, id, hit, k) ==
    IF id \notin DOMAIN S.games THEN ReturnedVoid(S)
    ELSE LET game == S.games[id]
             afterTimeout ==
                 {IF /\ game.status = "playing"
                     /\ game.roundEndsAt # Null
                     /\ now >= getTime(game.roundEndsAt)
                  THEN endRound(S, id, <<>>, k)
                  ELSE S}
             afterBot ==
                 {IF S1.games[id].status = "playing" /\ S1.games[id].isBotGame
                  THEN processBotMove(S1, id, hit, k)
                  ELSE S1 : S1 \in afterTimeout}
         IN  CHOOSE r \in {Returned(S2, gameView(S2, id)) : S2 \in afterBot} : TRUE

\* each step's store is bound once, as the one element of a set
getGame(S, id, hit, k) ==
    IF id \notin DOMAIN S.games THEN ReturnedVoid(S)
    ELSE LET game == S.games[id]
             afterTimeout ==
                 {IF /\ game.status = "playing"
                     /\ game.roundEndsAt # Null
                     /\ now > getTime(game.roundEndsAt)
                  THEN endRound(S, id, <<>>, k)
                  ELSE S}
             afterBot ==
                 {IF S1.games[id].status = "playing" /\ S1.games[id].isBotGame
                  THEN processBotMove(S1, id, hit, k)
                  ELSE S1 : S1 \in afterTimeout}
         IN  CHOOSE r \in {Returned(S2, gameView(S2, id)) : S2 \in afterBot} : TRUE

\* ----------------------------------------------------------------- actions
\* A scope names the inputs the environment draws from: the codes createGame
\* may generate, the hosts, the users who join and submit, the words they
\* submit, the random draws of a start word and of a backup word, the time
\* that passes in one step, and the caps on the two unbounded counters.
\* The lifecycle scope is wide in players and games, the round scope in
\* words, draws and time.
LifecycleScope ==
    [codes |-> {"G1"}, hosts |-> {1}, users |-> {2, 3, 4},
     submitters |-> {1},
     words |-> {<<>>}, starts |-> {1}, backups |-> {5},
     tick |-> 6 * TickMs, maxPlayerId |-> MaxPlayerId, maxScore |-> MaxScore]

RoundScope ==
    [codes |-> {"G1"}, hosts |-> {1}, users |-> {2},
     submitters |-> {1, 5},
     words |-> Words, starts |-> 1..Len(startWords),
     backups |-> {1, 5},
     tick |-> TickMs, maxPlayerId |-> MaxRoundPlayerId, maxScore |-> MaxScore]

\* the model follows the store only while its counters are within the caps
WithinBounds(sc, S) ==
    /\ S.playerIdCounter <= sc.maxPlayerId + 1
    /\ \A p \in DOMAIN S.players : S.players[p].score <= sc.maxScore

\* the store a call leaves becomes the store
Commit(r) ==
    /\ games' = r.S.games
    /\ players' = r.S.players
    /\ gamePlayers' = r.S.gamePlayers
    /\ playerIdCounter' = r.S.playerIdCounter

Init ==
    /\ games = << >>
    /\ players = << >>
    /\ gamePlayers = << >>
    /\ playerIdCounter = 1

CreateGame(sc) ==
    \E id \in sc.codes, hostId \in sc.hosts, isBotGame \in BOOLEAN :
        LET r == createGame(Store, id, hostId, isBotGame)
        IN  /\ WithinBounds(sc, r.S)
            /\ Commit(r)

JoinGame(sc) ==
    \E gameId \in GameIds, userId \in sc.users \cup sc.hosts :
        LET r == joinGame(Store, gameId, userId)
        IN  /\ WithinBounds(sc, r.S)
            /\ Commit(r)

StartGame(sc) ==
    \E gameId \in GameIds, k \in sc.starts :
        LET r == startGame(Store, gameId, k)
        IN  /\ WithinBounds(sc, r.S)
            /\ Commit(r)

\* endRound draws a backup word only when it is handed no winning word
SubmitWord(sc) ==
    \E gameId \in GameIds, userId \in sc.submitters, word \in sc.words :
        \E k \in IF wordToUpperCase(word) = <<>> THEN sc.backups ELSE {1} :
            LET r == submitWord(Store, gameId, userId, word, k)
            IN  /\ WithinBounds(sc, r.S)
                /\ Commit(r)

GetGame(sc) ==
    \E id \in GameIds, hit \in BOOLEAN, k \in sc.backups :
        LET r == getGame(Store, id, hit, k)
        IN  /\ WithinBounds(sc, r.S)
            /\ Commit(r)

\* ms milliseconds pass: every pending expiry is ms closer
elapse(d, ms) ==
    IF d = Null THEN Null
    ELSE IF getTime(d) - ms < now - MaxStaleTicks * TickMs
         THEN Date(now - MaxStaleTicks * TickMs)
         ELSE Date(getTime(d) - ms)

Tick(sc) ==
    /\ games' = [g \in DOMAIN games |->
                    [games[g] EXCEPT !.roundEndsAt = elapse(@, sc.tick)]]
    /\ UNCHANGED <<players, gamePlayers, playerIdCounter>>

Next ==
    \/ CreateGame(LifecycleScope)
    \/ JoinGame(LifecycleScope)
    \/ StartGame(LifecycleScope)
    \/ SubmitWord(LifecycleScope)
    \/ GetGame(LifecycleScope)
    \/ Tick(LifecycleScope)

Spec == Init /\ [][Next]_vars

RoundNext ==
    \/ CreateGame(RoundScope)
    \/ JoinGame(RoundScope)
    \/ StartGame(RoundScope)
    \/ SubmitWord(RoundScope)
    \/ GetGame(RoundScope)
    \/ Tick(RoundScope)

RoundSpec == Init /\ [][RoundNext]_vars

\* A bot game nobody plays: no submitWord call.  The game is read while the
\* bot's window is open, and the bot's draw does not miss for ever: a read
\* in which the draw succeeds, possible again and again, happens.
BotInWindow(g) ==
    /\ g \in DOMAIN games
    /\ games[g].status = "playing"
    /\ games[g].isBotGame
    /\ games[g].roundEndsAt # Null
    /\ getTime(games[g].roundEndsAt) - now < BotWindowHi
    /\ getTime(games[g].roundEndsAt) - now > BotWindowLo

BotScope ==
    [codes |-> {"G1"}, hosts |-> {1}, users |-> {2},
     submitters |-> {},
     words |-> {}, starts |-> 1..Len(startWords), backups |-> {1, 5},
     tick |-> TickMs, maxPlayerId |-> MaxRoundPlayerId, maxScore |-> MaxScore]

\* a read of a bot game whose window is open, the bot's draw succeeding
PollHit(sc) ==
    \E id \in {g \in GameIds : BotInWindow(g)}, k \in sc.backups :
        \E r \in {getGame(Store, id, TRUE, k)} :
            /\ WithinBounds(sc, r.S)
            /\ Commit(r)

BotNext ==
    \/ CreateGame(BotScope)
    \/ JoinGame(BotScope)
    \/ StartGame(BotScope)
    \/ GetGame(BotScope)
    \/ Tick(BotScope)

BotSpec == Init /\ [][BotNext]_vars /\ SF_vars(PollHit(BotScope))

\* ------------------------------------------------- a game played once
\* The life of games that are started once and not replaced: createGame
\* draws a code not in use, startGame is called on waiting games only.  Time
\* keeps passing and an expired round keeps being read (the client polls
\* getGame every 500 ms).
CreateFresh(sc) ==
    \E id \in sc.codes \ DOMAIN games, hostId \in sc.hosts, isBotGame \in BOOLEAN :
        LET r == createGame(Store, id, hostId, isBotGame)
        IN  /\ WithinBounds(sc, r.S)
            /\ Commit(r)

StartWaiting(sc) ==
    \E gameId \in {g \in DOMAIN games : games[g].status = "waiting"},
       k \in sc.starts :
        LET r == startGame(Store, gameId, k)
        IN  /\ WithinBounds(sc, r.S)
            /\ Commit(r)

\* a read of a game whose round has run out
ReadExpired(sc) ==
    \E id \in {g \in DOMAIN games :
                  /\ games[g].status = "playing"
                  /\ games[g].roundEndsAt # Null
                  /\ now > getTime(games[g].roundEndsAt)},
       hit \in BOOLEAN, k \in sc.backups :
        \E r \in {getGame(Store, id, hit, k)} :
            /\ WithinBounds(sc, r.S)
            /\ Commit(r)

OnceScope == RoundScope

OnceNext ==
    \/ CreateFresh(OnceScope)
    \/ JoinGame(OnceScope)
    \/ StartWaiting(OnceScope)
    \/ SubmitWord(OnceScope)
    \/ GetGame(OnceScope)
    \/ Tick(OnceScope)

OnceSpec ==
    /\ Init
    /\ [][OnceNext]_vars
    /\ WF_vars(Tick(OnceScope))
    /\ WF_vars(ReadExpired(OnceScope))

\* OnceSpec without the reads: time passes, nobody has to read
UnreadSpec == Init /\ [][OnceNext]_vars /\ WF_vars(Tick(OnceScope))

\* ------------------------------------------------------------------ claims
\* The claims about one call are stated over every reachable store and every
\* argument of the call: the method is applied to the store as it stands.
Callers == UserIds \cup {BotUserId}
BoolDraws == BOOLEAN
BackupDraws == 1..Len(backupWords)
StartDraws == 1..Len(startWords)
\* the backup draws a submitWord of word w can come to: endRound draws only
\* when the word it is handed is empty
SubmitDraws(w) == IF wordToUpperCase(w) = <<>> THEN BackupDraws ELSE {1}

statusOf(g) == games[g].status
playerOf(g, u) == findPlayer(Store, playerIdsOf(Store, g), u)
scoresOf(S) == [p \in DOMAIN S.players |-> S.players[p].score]

\* the trimmed word starts, case-insensitively, with the last character of
\* the game's current word
StartsWithLast(g, w) ==
    /\ trim(w) # <<>>
    /\ games[g].currentWord # <<>>
    /\ toUpperCase(trim(w)[1])
           = toUpperCase(games[g].currentWord[Len(games[g].currentWord)])

\* the round resolution of a call that left store T: one round further, or
\* finished after round 5
Resolved(g, T) ==
    IF games[g].round < MaxRounds
    THEN /\ T.games[g].round = games[g].round + 1
         /\ T.games[g].status = "playing"
    ELSE T.games[g].status = "finished"

\* C1: in a playing game, a submitWord whose trimmed word starts with the
\* last character of the current word returns valid:true, adds exactly 1 to
\* the submitter's score, leaves every other score alone and advances the
\* round by 1 (or finishes the game at round 5), for every userId.
C1_SubmitScores ==
    \A g \in DOMAIN games, u \in Callers, w \in Words : \A k \in SubmitDraws(w) :
        (statusOf(g) = "playing" /\ StartsWithLast(g, w)) =>
            LET r == submitWord(Store, g, u, w, k)
                p == playerOf(g, u)
            IN  /\ r.value = <<[valid |-> TRUE, message |-> <<>>]>>
                /\ p # 0
                /\ r.S.players[p].score = players[p].score + 1
                /\ \A q \in DOMAIN players \ {p} : r.S.players[q] = players[q]
                /\ Resolved(g, r.S)

\* C1 for the users who have a player in the game, and what the code does
\* for the others: the round is resolved and no score changes.
C1_EnrolledScores ==
    \A g \in DOMAIN games, u \in Callers, w \in Words : \A k \in SubmitDraws(w) :
        (statusOf(g) = "playing" /\ StartsWithLast(g, w)) =>
            LET r == submitWord(Store, g, u, w, k)
                p == playerOf(g, u)
            IN  /\ r.value = <<[valid |-> TRUE, message |-> <<>>]>>
                /\ Resolved(g, r.S)
                /\ IF p # 0
                   THEN /\ r.S.players[p].score = players[p].score + 1
                        /\ \A q \in DOMAIN players \ {p} :
                               r.S.players[q] = players[q]
                   ELSE r.S.players = players

\* C2: in a playing game, a submitWord whose trimmed word does not start with
\* the last character of the current word returns valid:false with the
\* message naming the required letter and changes nothing in the store.
C2_MismatchRejected ==
    \A g \in DOMAIN games, u \in Callers, w \in Words : \A k \in SubmitDraws(w) :
        (statusOf(g) = "playing" /\ ~StartsWithLast(g, w)) =>
            LET r == submitWord(Store, g, u, w, k)
            IN  /\ r.error = ""
                /\ r.value =
                     <<[valid |-> FALSE,
                        message |-> <<"Word must start with",
                                      toUpperCase(sliceLast(games[g].currentWord))>>]>>
                /\ r.S = Store

\* a playing game whose current word ends in M, in its second round or
\* later, where a player's submission of "e" is turned down
C2_Witness ==
    \E g \in DOMAIN games :
        /\ statusOf(g) = "playing"
        /\ games[g].round >= 2
        /\ sliceLast(games[g].currentWord) = "M"
        /\ playerOf(g, 1) # 0
        /\ players[playerOf(g, 1)].score = 1
        /\ submitWord(Store, g, 1, <<"e">>, 1).value[1].valid = FALSE

statusRank(st) ==
    CASE st = "waiting" -> 0
      [] st = "playing" -> 1
      [] st = "finished" -> 2

\* the game under code g is the same game before and after the step: it was
\* not replaced by a createGame that drew its code again
SameGame(g) ==
    /\ g \in DOMAIN games
    /\ gamePlayers[g] # <<>>
    /\ gamePlayers'[g] # <<>>
    /\ Head(gamePlayers'[g]) = Head(gamePlayers[g])

\* C3: a game's status only moves forward along waiting, playing, finished;
\* a finished game never changes status again.
C3_StatusMonotonic ==
    [][\A g \in DOMAIN games :
          SameGame(g) =>
              statusRank(games'[g].status) >= statusRank(games[g].status)]_vars

enrolled(g, u) == playerOf(g, u) # 0

\* C4 as stated: no game has more than 4 players, and joinGame by a user
\* who is not enrolled, on a game that has 4 players, fails with "Game full"
\* and adds no player.
C4_FullGameSaysFull ==
    \A g \in DOMAIN games :
        /\ Len(gamePlayers[g]) <= MaxPlayers
        /\ \A u \in Callers :
               (Len(gamePlayers[g]) = MaxPlayers /\ ~enrolled(g, u)) =>
                   LET r == joinGame(Store, g, u)
                   IN  r.error = "Game full" /\ r.S = Store

\* C4, amended: no game has more than 4 players, and joinGame by a user who
\* is not enrolled, on a game that has 4 players, fails and adds no player:
\* with "Game full" while the game is waiting, with "Game already started"
\* once it has been started.
C4_AtMostFourPlayers ==
    \A g \in DOMAIN games :
        /\ Len(gamePlayers[g]) <= MaxPlayers
        /\ \A u \in Callers :
               (Len(gamePlayers[g]) = MaxPlayers /\ ~enrolled(g, u)) =>
                   LET r == joinGame(Store, g, u)
                   IN  /\ r.S = Store
                       /\ r.error = IF statusOf(g) = "waiting"
                                    THEN "Game full"
                                    ELSE "Game already started"

\* a waiting game with 4 players, user 4 not among them, whose joinGame
\* fails with "Game full"
C4_Witness ==
    \E g \in DOMAIN games :
        /\ statusOf(g) = "waiting"
        /\ Len(gamePlayers[g]) = MaxPlayers
        /\ ~enrolled(g, 4)
        /\ joinGame(Store, g, 4).error = "Game full"

\* C5: in a waiting game, joinGame by a user who already has a player in the
\* game returns that player's record and changes nothing, whatever the
\* number of players (1 to 4).
C5_RejoinIdempotent ==
    \A g \in DOMAIN games, u \in Callers :
        (statusOf(g) = "waiting" /\ enrolled(g, u)) =>
            LET r == joinGame(Store, g, u)
            IN  /\ r.error = ""
                /\ r.value = <<players[playerOf(g, u)]>>
                /\ r.S = Store

\* C6: joinGame on a playing or finished game throws "Game already started"
\* for enrolled and other users alike, joinGame on a missing game throws
\* "Game not found", and neither changes the store.
C6_JoinStartedFails ==
    \A g \in GameIds, u \in Callers :
        LET r == joinGame(Store, g, u)
        IN  /\ g \notin DOMAIN games =>
                (r.error = "Game not found" /\ r.value = <<>> /\ r.S = Store)
            /\ (g \in DOMAIN games /\ statusOf(g) \in {"playing", "finished"}) =>
                (r.error = "Game already started" /\ r.value = <<>>
                    /\ r.S = Store)

\* a playing game with user 2 enrolled and user 5 not, both turned away, and
\* a code no game has
C6_Witness ==
    \E g \in DOMAIN games :
        /\ statusOf(g) = "playing"
        /\ enrolled(g, 2)
        /\ ~enrolled(g, 5)
        /\ joinGame(Store, g, 2).error = "Game already started"
        /\ joinGame(Store, g, 5).error = "Game already started"
        /\ \E h \in GameIds : joinGame(Store, h, 2).error = "Game not found"

\* C7: every game's round is between 0 and 5, and it is 0 exactly while the
\* game has not been started (status waiting).
C7_RoundInRange ==
    \A g \in DOMAIN games :
        /\ games[g].round \in 0..MaxRounds
        /\ games[g].round = 0 <=> statusOf(g) = "waiting"

\* a game finished after its fifth round, the bot having scored in it
C7_Witness ==
    \E g \in DOMAIN games :
        /\ statusOf(g) = "finished"
        /\ games[g].round = MaxRounds
        /\ games[g].isBotGame
        /\ \E p \in DOMAIN players :
               players[p].userId = BotUserId /\ players[p].score > 0

\* C8: roundEndsAt is non-null exactly when the game is playing.
C8_ExpiryIffPlaying ==
    \A g \in DOMAIN games :
        games[g].roundEndsAt # Null <=> statusOf(g) = "playing"

\* a finished game, its expiry cleared, beside nothing pending
C8_Witness ==
    \E g \in DOMAIN games :
        /\ statusOf(g) = "finished"
        /\ games[g].roundEndsAt = Null
        /\ games[g].currentWord \in {backupWords[k] : k \in BackupDraws}

\* the round of game g has expired: new Date() > game.roundEndsAt
Expired(g) ==
    /\ statusOf(g) = "playing"
    /\ games[g].roundEndsAt # Null
    /\ now > getTime(games[g].roundEndsAt)

\* C9: a getGame on a playing game whose round has expired, however long
\* ago, advances the round by exactly 1, makes a backup word the current
\* word and sets the expiry 5 seconds from the read when round < 5, finishes
\* the game when round = 5, and changes no player, in bot games as in others.
C9_TimeoutRead ==
    \A g \in DOMAIN games, hit \in BoolDraws, k \in BackupDraws :
        Expired(g) =>
            LET r == getGame(Store, g, hit, k)
                G == r.S.games[g]
            IN  /\ r.error = ""
                /\ r.S.players = players
                /\ r.S.gamePlayers = gamePlayers
                /\ IF games[g].round < MaxRounds
                   THEN /\ G.round = games[g].round + 1
                        /\ G.status = "playing"
                        /\ G.currentWord \in {backupWords[j] : j \in BackupDraws}
                        /\ G.roundEndsAt = Date(now + RoundMs)
                   ELSE /\ G.status = "finished"
                        /\ G.round = games[g].round

\* a bot game read after its first round ran out: round 2, a backup word,
\* a fresh expiry, nobody has scored
C9_Witness ==
    \E g \in DOMAIN games :
        /\ games[g].isBotGame
        /\ statusOf(g) = "playing"
        /\ games[g].round = 2
        /\ games[g].currentWord \in {backupWords[j] : j \in BackupDraws}
        /\ games[g].roundEndsAt = Date(now + RoundMs)
        /\ \A p \in DOMAIN players : players[p].score = 0

botScore(g) ==
    IF g \in DOMAIN games /\ playerOf(g, BotUserId) # 0
    THEN players[playerOf(g, BotUserId)].score
    ELSE 0

\* the bot's submission resolved round n of game g, its score s before
BotResolved(g, s, n) ==
    /\ g \in DOMAIN games
    /\ botScore(g) = s + 1
    /\ IF n < MaxRounds
       THEN games[g].round = n + 1 /\ games[g].status = "playing"
       ELSE games[g].status = "finished"

C11_StartGameUnconditional ==
    \A g \in GameIds, k \in StartDraws :
        LET r == startGame(Store, g, k)
        IN  IF g \notin DOMAIN games
            THEN r.error = "Game not found" /\ r.S = Store
            ELSE /\ r.error = ""
                 /\ r.S.games[g].status = "playing"
                 /\ r.S.games[g].round = 1
                 /\ r.S.games[g].currentWord \in {startWords[j] : j \in StartDraws}
                 /\ r.S.games[g].roundEndsAt = Date(now + RoundMs)
                 /\ r.S.games[g].hostId = games[g].hostId
                 /\ r.S.games[g].isBotGame = games[g].isBotGame
                 /\ \A h \in DOMAIN games \ {g} : r.S.games[h] = games[h]
                 /\ r.S.players = players
                 /\ r.S.gamePlayers = gamePlayers
                 /\ r.S.playerIdCounter = playerIdCounter

\* a game started again after a point was scored in it: round 1, a starter
\* word, a full expiry, the score kept
C11_Witness ==
    \E g \in DOMAIN games :
        /\ statusOf(g) = "playing"
        /\ games[g].round = 1
        /\ games[g].currentWord \in {startWords[j] : j \in StartDraws}
        /\ games[g].roundEndsAt = Date(now + RoundMs)
        /\ \E i \in 1..Len(gamePlayers[g]) : players[gamePlayers[g][i]].score > 0

\* C12: submitWord throws nothing; on a missing game it returns valid:false
\* with "Game not found", on a waiting or finished game valid:false with
\* "Round not active", for every word and userId, and changes nothing.
C12_SubmitFailsSoftly ==
    \A g \in GameIds, u \in Callers, w \in Words : \A k \in SubmitDraws(w) :
        LET r == submitWord(Store, g, u, w, k)
        IN  /\ r.error = ""
            /\ g \notin DOMAIN games =>
                   /\ r.value = <<[valid |-> FALSE,
                                   message |-> <<"Game not found">>]>>
                   /\ r.S = Store
            /\ (g \in DOMAIN games /\ statusOf(g) \in {"waiting", "finished"}) =>
                   /\ r.value = <<[valid |-> FALSE,
                                   message |-> <<"Round not active">>]>>
                   /\ r.S = Store

\* a finished game whose last word ends in E: the host's "e", which would
\* match, is answered "Round not active"; and a code no game has
C12_Witness ==
    \E g \in DOMAIN games :
        /\ statusOf(g) = "finished"
        /\ enrolled(g, 1)
        /\ StartsWithLast(g, <<"e">>)
        /\ submitWord(Store, g, 1, <<"e">>, 1).value[1].message
               = <<"Round not active">>
        /\ \E h \in GameIds \ DOMAIN games :
               submitWord(Store, h, 1, <<"e">>, 1).value[1].message
                   = <<"Game not found">>

\* the users createUser has issued an id to (ids count up from 1)
HostIds == UserIds

\* C13: createGame returns a game that is waiting, in round 0, with an empty
\* current word and no expiry; the host is enrolled in it with score 0 and,
\* exactly when isBotGame is true, one bot player (userId -1, score 0) after
\* the host: 1 player in a non-bot game, 2 in a bot game.
C13_CreateGameResult ==
    \A id \in GameIds, hostId \in HostIds, isBotGame \in BOOLEAN :
        LET r == createGame(Store, id, hostId, isBotGame)
            T == r.S
            list == T.gamePlayers[id]
        IN  /\ r.error = ""
            /\ r.value = <<[id |-> id, hostId |-> hostId, status |-> "waiting",
                            round |-> 0, currentWord |-> <<>>,
                            roundEndsAt |-> Null, isBotGame |-> isBotGame]>>
            /\ T.games[id] = r.value[1]
            /\ Len(list) = IF isBotGame THEN 2 ELSE 1
            /\ T.players[list[1]] =
                   [id |-> list[1], gameId |-> id, userId |-> hostId,
                    score |-> 0, hasSubmitted |-> FALSE]
            /\ isBotGame =>
                   T.players[list[2]] =
                       [id |-> list[2], gameId |-> id, userId |-> BotUserId,
                        score |-> 0, hasSubmitted |-> FALSE]
            /\ isBotGame <=>
                   \E i \in 1..Len(list) : T.players[list[i]].userId = BotUserId

\* a bot game as createGame leaves it: waiting, round 0, the host and the
\* bot its two players, both at score 0
C13_Witness ==
    \E g \in DOMAIN games :
        /\ games[g] = [id |-> g, hostId |-> 1, status |-> "waiting", round |-> 0,
                       currentWord |-> <<>>, roundEndsAt |-> Null,
                       isBotGame |-> TRUE]
        /\ Len(gamePlayers[g]) = 2
        /\ players[gamePlayers[g][1]].userId = 1
        /\ players[gamePlayers[g][2]].userId = BotUserId
        /\ \A i \in 1..2 : players[gamePlayers[g][i]].score = 0

\* the number of places player p takes in the player list of game g
listings(g, p) == Cardinality({i \in 1..Len(gamePlayers[g]) : gamePlayers[g][i] = p})

\* C14: within one game no two player records have the same userId, and
\* every player record is listed in exactly one game's player list, the one
\* named by its gameId.
C14_PlayersUnique ==
    /\ \A g \in DOMAIN games :
           \A i, j \in 1..Len(gamePlayers[g]) :
               players[gamePlayers[g][i]].userId = players[gamePlayers[g][j]].userId
                   => i = j
    /\ \A p \in DOMAIN players :
           /\ players[p].gameId \in DOMAIN gamePlayers
           /\ \A g \in DOMAIN gamePlayers :
                  listings(g, p) = IF g = players[p].gameId THEN 1 ELSE 0

\* C14 for the records that are listed, which is what the code keeps: no
\* userId twice in a game, and a listed record is listed once, in the list
\* of its gameId; the records of a game whose code createGame drew again
\* are listed nowhere.
C14_ListedPlayersUnique ==
    /\ \A g \in DOMAIN games :
           \A i, j \in 1..Len(gamePlayers[g]) :
               players[gamePlayers[g][i]].userId = players[gamePlayers[g][j]].userId
                   => i = j
    /\ \A p \in DOMAIN players, g \in DOMAIN gamePlayers :
           listings(g, p) = IF g = players[p].gameId /\ listings(g, p) > 0
                            THEN 1 ELSE 0

\* one getGame took game g at most one round further and gave the bot at
\* most one point
AtMostOneStep(g, T) ==
    /\ T.games[g].round \in {games[g].round, games[g].round + 1}
    /\ \A p \in DOMAIN players :
           T.players[p].score \in
               IF p = playerOf(g, BotUserId)
               THEN {players[p].score, players[p].score + 1}
               ELSE {players[p].score}

\* C15: whenever the bot decides to move (bot game, playing, time left
\* strictly between 1 and 3 seconds, the draw a hit) its word is accepted:
\* the bot's score goes up by exactly 1 and the round is resolved with a
\* fresh expiry; and one getGame takes the round at most one further and
\* gives the bot at most one point.
C15_BotMoveAccepted ==
    \A g \in DOMAIN games, k \in BackupDraws :
        /\ BotInWindow(g) =>
               LET r == getGame(Store, g, TRUE, k)
                   p == playerOf(g, BotUserId)
               IN  /\ p # 0
                   /\ r.S.players[p].score = players[p].score + 1
                   /\ \A q \in DOMAIN players \ {p} : r.S.players[q] = players[q]
                   /\ Resolved(g, r.S)
                   /\ games[g].round < MaxRounds =>
                          r.S.games[g].roundEndsAt = Date(now + RoundMs)
        /\ \A hit \in BoolDraws : AtMostOneStep(g, getGame(Store, g, hit, k).S)

\* the second half of C15, which the code keeps: one getGame takes the
\* round at most one further and gives the bot at most one point.
C15_OneStepPerRead ==
    \A g \in DOMAIN games, k \in BackupDraws, hit \in BoolDraws :
        AtMostOneStep(g, getGame(Store, g, hit, k).S)

\* C16: processBotMove changes state only on an existing bot game that is
\* playing with more than 1000 ms and less than 3000 ms left; in every
\* other case (no game, not a bot game, waiting or finished, 1000 ms or
\* less left, 3000 ms or more left) it leaves the store as it was.
C16_BotMoveFrame ==
    \A g \in GameIds, hit \in BoolDraws, k \in BackupDraws :
        ~BotInWindow(g) => processBotMove(Store, g, hit, k) = Store

\* a playing bot game with exactly 1000 ms left, and one with exactly
\* 3000 ms left, where the bot's hit changes nothing
C16_Witness ==
    \E g \in DOMAIN games :
        /\ games[g].isBotGame
        /\ statusOf(g) = "playing"
        /\ games[g].roundEndsAt \in {Date(now + BotWindowLo), Date(now + BotWindowHi)}
        /\ StartsWithLast(g, <<toUpperCase(sliceLast(games[g].currentWord))>>
                                 \o BOTWORD)
        /\ processBotMove(Store, g, TRUE, 1) = Store

\* some submission wins the round of game g: the words tried are the
\* submitted words of the round scope and the word made of the one
\* character a winning word has to start with
Winnable(g) ==
    \E w \in Words \cup {<<sliceLast(games[g].currentWord)>>} :
        submitWord(Store, g, games[g].hostId, w, 1).value[1].valid

\* C17: in every reachable state where a game is playing the round is
\* winnable: some word's trimmed first character matches the last character
\* of the current word, so submitWord returns valid:true for it; also after
\* an accepted submission with leading or trailing white space.
C17_RoundWinnable ==
    \A g \in DOMAIN games : statusOf(g) = "playing" => Winnable(g)

\* C17 as the code keeps it: a playing game's round is winnable unless its
\* current word ends in white space, which only an accepted submission with
\* trailing white space brings about.
C17_WinnableUnlessTrailingSpace ==
    \A g \in DOMAIN games :
        statusOf(g) = "playing" =>
            (Winnable(g) <=> ~isWhiteSpace(sliceLast(games[g].currentWord)))

\* a game getGame has nothing to reconcile in: waiting, finished, or a
\* non-bot game that is playing and whose expiry has not passed
Settled(g) ==
    /\ g \in DOMAIN games
    /\ \/ statusOf(g) \in {"waiting", "finished"}
       \/ statusOf(g) = "playing" /\ ~games[g].isBotGame /\ ~Expired(g)

\* C18: getGame on a waiting or finished game, and on a non-bot playing
\* game whose expiry has not passed, changes no game and no player and
\* returns the view of the store as it is, a second read returning the same
\* view; getGame on a missing id returns undefined and changes nothing.
C18_GetGamePureRead ==
    \A g \in GameIds :
        LET reads(S) == {getGame(S, g, hit, k) : hit \in BoolDraws, k \in BackupDraws}
        IN  \A r \in reads(Store) :
                /\ r.error = ""
                /\ g \notin DOMAIN games => (r.value = <<>> /\ r.S = Store)
                /\ Settled(g) =>
                       /\ r.S = Store
                       /\ r.value = <<gameView(Store, g)>>
                       /\ \A r2 \in reads(r.S) :
                              r2.value = r.value /\ r2.S = Store

\* a non-bot game in its second round read at the very instant of its
\* expiry, the host holding a point: the read changes nothing
C18_Witness ==
    \E g \in DOMAIN games :
        /\ statusOf(g) = "playing"
        /\ ~games[g].isBotGame
        /\ games[g].round = 2
        /\ games[g].roundEndsAt = Date(now)
        /\ enrolled(g, 1)
        /\ players[playerOf(g, 1)].score = 1
        /\ getGame(Store, g, TRUE, 1).S = Store
        /\ getGame(Store, g, TRUE, 1).value = <<gameView(Store, g)>>

\* the store after the step
StoreNext == [games |-> games', players |-> players',
              gamePlayers |-> gamePlayers', playerIdCounter |-> playerIdCounter']

\* the step resolved one round of game g: one round further, or finished
\* from round 5
ResolvedStep(g) ==
    \/ /\ games[g].round < MaxRounds
       /\ games'[g].round = games[g].round + 1
       /\ games'[g].status = "playing"
    \/ /\ games[g].round = MaxRounds
       /\ games'[g].round = MaxRounds
       /\ games'[g].status = "finished"

\* the step is a getGame or a submitWord on game g
ReadOrSubmit(g) ==
    \/ \E hit \in BoolDraws, k \in BackupDraws :
           StoreNext = getGame(Store, g, hit, k).S
    \/ \E u \in Callers, w \in Words, k \in BackupDraws :
           StoreNext = submitWord(Store, g, u, w, k).S

\* C19: a game that is playing, is not started again and keeps being read
\* after each expiry while time passes eventually is finished; until then
\* every change to it is one round resolution by a read or a submission,
\* rounds 1 to 5 in turn, so it finishes after exactly 5 resolutions, and
\* without a read or a submission it stays playing.
C19_StartedGameFinishes ==
    /\ \A g \in OnceScope.codes :
           (g \in DOMAIN games /\ statusOf(g) = "playing")
               ~> (g \in DOMAIN games /\ statusOf(g) = "finished")
    /\ [][\A g \in DOMAIN games :
             (statusOf(g) = "playing" /\ games'[g] # games[g]) =>
                 \/ /\ games'[g] = [games[g] EXCEPT
                                       !.roundEndsAt = games'[g].roundEndsAt]
                    /\ games'[g].roundEndsAt # Null
                 \/ ResolvedStep(g) /\ ReadOrSubmit(g)]_vars
    /\ [][\A g \in DOMAIN games :
             (statusOf(g) = "finished") => games'[g] = games[g]]_vars

\* a game finished from round 5 that no submission won a round of: five
\* reads after five expiries
C19_Witness ==
    \E g \in DOMAIN games :
        /\ statusOf(g) = "finished"
        /\ games[g].round = MaxRounds
        /\ games[g].roundEndsAt = Null
        /\ ~games[g].isBotGame
        /\ \A p \in DOMAIN players : players[p].score = 0

\* C20: a submitWord that arrives after the round's roundEndsAt has passed,
\* no getGame having resolved the timeout, awards no point: no player's
\* score changes and the submitted word does not become the current word.
C20_LateSubmitScoresNothing ==
    \A g \in DOMAIN games, u \in Callers, w \in Words : \A k \in SubmitDraws(w) :
        Expired(g) =>
            LET r == submitWord(Store, g, u, w, k)
            IN  /\ scoresOf(r.S) = scoresOf(Store)
                /\ r.S.games[g].currentWord # games[g].currentWord =>
                       r.S.games[g].currentWord
                           \in {backupWords[j] : j \in BackupDraws}

\* what the code does with a late submission: exactly what it does with one
\* in time, the expiry playing no part in submitWord
C20_LateSubmitAsInTime ==
    \A g \in DOMAIN games, u \in Callers, w \in Words : \A k \in SubmitDraws(w) :
        (Expired(g) /\ StartsWithLast(g, w) /\ enrolled(g, u)) =>
            LET r == submitWord(Store, g, u, w, k)
            IN  /\ r.value = <<[valid |-> TRUE, message |-> <<>>]>>
                /\ r.S.players[playerOf(g, u)].score
                       = players[playerOf(g, u)].score + 1
                /\ Resolved(g, r.S)

====
